---- MODULE Spec2Model ----
(***************************************************************************)
(* Model of src/tree.ts: the references-view tree.                         *)
(*   TreeDataProviderDelegate  (lines 14-62)   the Provider Delegate       *)
(*   SymbolsTree               (lines 89-178)  the Tree Controller         *)
(*   TreeInputHistory          (lines 190-259) the History Store           *)
(*                                                                         *)
(* Every call of setInput or clearInput is given a call id: its index in   *)
(* `calls`.  The call id stands for the promise that the call hands to     *)
(* TreeDataProviderDelegate.update (a fresh object per call) and, for a    *)
(* setInput call, for the model that its input.resolve() produces.         *)
(* Promise reactions are steps of their own: the runtime runs them later,  *)
(* one at a time, interleaved with further calls.                          *)
(***************************************************************************)
EXTENDS Integers, Sequences, FiniteSets, TLC

\* ---------------------------------------------------------------- bounds

\* the number of setInput/clearInput calls in one behaviour
MaxCalls == 4

\* the number of calls whose promise the delegate has not reacted to yet
MaxPending == 2

\* the number of TreeInputHistory.add calls since the last clear, when the
\* History Store is driven alone (SpecHistory)
MaxAdds == 4

\* ---------------------------------------------------------------- values

\* SymbolTreeInput objects a caller may pass to setInput
InputSet == {"X", "Y"}

\* SymbolTreeInput objects added to the History Store when it is driven alone;
\* "W" and "X" are distinct objects with the same hash()
HistoryInputSet == {"W", "X", "Y", "Z"}

\* `undefined` for the fields that hold an input, a promise or a disposable
NoInput == "none"
NoCall == 0

\* tree.message: undefined
Unset == "unset"

\* SymbolTreeInput.hash()
hash(i) == CASE i = "W" -> "a"
             [] i = "X" -> "a"
             [] i = "Y" -> "b"
             [] i = "Z" -> "c"

\* SymbolTreeInput.title
TitleOf(i) == "title of " \o i

\* the models "X" resolves to have a message and a provider with dispose();
\* the models "Y" resolves to have neither (message undefined, no dispose)
HasMessage(i) == i = "X"
HasDispose(i) == i = "X"

\* SymbolTreeModel.message of the model that call c's input.resolve() produced:
\* every resolve() makes a model of its own
MessageOf(c, i) == IF HasMessage(i) THEN "message of model " \o ToString(c) ELSE Unset

\* the strings clearInput writes
DefaultTitle == "References"
EmptyMessage == "Nothing to show"

\* the message of `new Error('MISSING provider')`
MissingProvider == "MISSING provider"

\* the event of the EventEmitter made at line 19
ConstructedEvent == "event of the emitter of line 19"

VARIABLES
    \* --- SymbolsTree
    input,              \* _input
    sessionDisposable,  \* _sessionDisposable: the call id of the session it was built for
    ctxIsActive,        \* _ctxIsActive: "true", "false", or "unset" before the first set()
    ctxHasResult,       \* _ctxHasResult: likewise
    title,              \* _tree.title
    message,            \* _tree.message
    \* --- TreeDataProviderDelegate
    provider,           \* provider: the call id of the promise it holds
    sessionDispoables,  \* _sessionDispoables: the call id of the promise whose value it subscribed to
    onDidChangeTreeData, \* onDidChangeTreeData: the event object the host subscribes to (line 21)
    \* --- TreeInputHistory
    inputs,             \* _inputs: the Map in insertion order, <<[key, input, item]>>
    ctxHasHistory,      \* _ctxHasHistory: likewise
    \* --- the world the program talks to
    calls,              \* the setInput/clearInput calls so far, with the state of their promises
    listeners,          \* call ids whose model.provider still holds the controller's listener (line 156)
    disposed,           \* call ids whose model.provider had dispose() called
    dsubs,              \* call ids whose promise value still holds the delegate's listener (line 34)
    \* --- what the last step did
    fired,              \* _onDidChange.fire calls of the last step
    hfired,             \* _onDidChangeTreeData.fire calls of the last step (History Store)
    revealed,           \* whether the last step called _tree.reveal
    selection,          \* what the last step got from navigation?.nearest (line 149), "unasked" if it did not ask
    visible,            \* what the last step read from _tree.visible (line 150), "unread" if it did not read it
    logged,             \* whether the last step called console.error
    addLog              \* the inputs passed to add on the store directly since the last clear, oldest first

vars == <<input, sessionDisposable, ctxIsActive, ctxHasResult, title, message,
          provider, sessionDispoables, onDidChangeTreeData, inputs, ctxHasHistory, calls, listeners,
          disposed, dsubs, fired, hfired, revealed, selection, visible, logged, addLog>>

ctlVars == <<input, sessionDisposable, ctxIsActive, ctxHasResult, title, message>>
dlgVars == <<provider, sessionDispoables, dsubs, onDidChangeTreeData>>
histVars == <<inputs, ctxHasHistory, addLog>>

CallIds == 1..Len(calls)

\* the step does not reach lines 149-152
NoReveal == revealed' = FALSE /\ selection' = "unasked" /\ visible' = "unread"

\* the calls whose promise has a reaction of the delegate still to run
InFlight == {c \in CallIds : ~calls[c].dlg}

\* a further setInput or clearInput call is within the bounds
CanCall == Len(calls) < MaxCalls /\ Cardinality(InFlight) < MaxPending

\* ------------------------------------------------- TreeDataProviderDelegate

\* line 28 left out: update swaps the provider without telling the host
updateWithoutFire(p) ==
    /\ dsubs' = dsubs \ {sessionDispoables}
    /\ sessionDispoables' = NoCall
    /\ fired' = 0
    /\ provider' = p
    /\ UNCHANGED onDidChangeTreeData

\* update(provider), lines 23-31: the synchronous part
update(p) ==
    /\ dsubs' = dsubs \ {sessionDispoables}      \* _sessionDispoables?.dispose()
    /\ sessionDispoables' = NoCall
    /\ fired' = 1                                \* _onDidChange.fire()
    /\ provider' = p
    /\ UNCHANGED onDidChangeTreeData             \* readonly, line 21

\* the guard of line 33 left out: every fulfilled promise is subscribed
IsCurrentProviderUnguarded(p) == TRUE

\* line 33: is the settled promise still the one the delegate holds
IsCurrentProvider(p) == provider = p

\* lines 32-35: the reaction to the promise of call c having fulfilled
DelegateThen(c) ==
    /\ c \in CallIds
    /\ calls[c].st = "fulfilled"
    /\ ~calls[c].dlg
    /\ calls' = [calls EXCEPT ![c].dlg = TRUE]
    /\ IF IsCurrentProvider(c)
         THEN /\ sessionDispoables' = c
              /\ dsubs' = dsubs \cup {c}
         ELSE UNCHANGED <<sessionDispoables, dsubs>>
    /\ fired' = 0 /\ hfired' = 0 /\ NoReveal /\ logged' = FALSE
    /\ UNCHANGED <<provider, onDidChangeTreeData, listeners, disposed>>
    /\ UNCHANGED ctlVars
    /\ UNCHANGED histVars

\* line 37 left out: the rejection handler only logs
ProviderKeptAfterCatch(c) == provider

\* line 37: what the rejection handler leaves in `provider`
ProviderAfterCatch(c) == NoCall

\* lines 36-39: the reaction to the promise of call c having rejected
DelegateCatch(c) ==
    /\ c \in CallIds
    /\ calls[c].st = "rejected"
    /\ ~calls[c].dlg
    /\ calls' = [calls EXCEPT ![c].dlg = TRUE]
    /\ provider' = ProviderAfterCatch(c)
    /\ logged' = TRUE
    /\ fired' = 0 /\ hfired' = 0 /\ NoReveal
    /\ UNCHANGED <<sessionDispoables, dsubs, onDidChangeTreeData, listeners, disposed>>
    /\ UNCHANGED ctlVars
    /\ UNCHANGED histVars

\* what the promise of call c resolves to: the History Store (clearInput,
\* line 173) or the provider of the model of call c (setInput, line 137)
ValueOf(c) == IF calls[c].kind = "clear" THEN "history" ELSE "model " \o ToString(c)

\* `(await this.provider).m(...)`, lines 44, 49, 54
Forward(m) ==
    CASE calls[provider].st = "pending"   -> "pending"
      [] calls[provider].st = "rejected"  -> "rejection of the awaited promise"
      [] calls[provider].st = "fulfilled" -> m \o " of " \o ValueOf(provider)

\* _assertProvider, lines 57-61
assertProvider == provider # NoCall

\* lines 42-55
getTreeItem == IF assertProvider THEN Forward("getTreeItem") ELSE MissingProvider
getChildren == IF assertProvider THEN Forward("getChildren") ELSE MissingProvider
getParent == IF assertProvider THEN Forward("getParent") ELSE MissingProvider

\* ------------------------------------------------------- TreeInputHistory

RECURSIVE Without(_, _)
\* Map.delete(key) on the insertion-ordered entries
Without(s, key) ==
    IF s = <<>> THEN <<>>
    ELSE IF Head(s).key = key THEN Without(Tail(s), key)
    ELSE <<Head(s)>> \o Without(Tail(s), key)

\* line 226 left out: set(key, p) without the delete(key) before it keeps the
\* key at its old place in the Map
addWithoutDelete(s, i) ==
    IF \E k \in 1..Len(s) : s[k].key = hash(i)
      THEN [k \in 1..Len(s) |->
              IF s[k].key = hash(i)
                THEN [key |-> hash(i), input |-> i, item |-> "pending"]
                ELSE s[k]]
      ELSE Append(s, [key |-> hash(i), input |-> i, item |-> "pending"])

\* add, lines 225-227: delete(key) then set(key, p); p is still pending
add(s, i) == Append(Without(s, hash(i)), [key |-> hash(i), input |-> i, item |-> "pending"])

\* get size, lines 237-239
size == Len(inputs)

\* add(input), lines 215-229
HistoryAddEffects(i) ==
    /\ inputs' = add(inputs, i)
    /\ ctxHasHistory' = "true"

\* [...this._inputs.values()].reverse(), line 253
RECURSIVE Reverse(_)
Reverse(s) == IF s = <<>> THEN <<>> ELSE Append(Reverse(Tail(s)), Head(s))

\* Promise.allSettled in place of Promise.all: rejected entries are skipped
historyGetChildrenSettled ==
    IF \E k \in 1..Len(inputs) : inputs[k].item = "pending"
      THEN [st |-> "pending", rows |-> <<>>]
    ELSE [st |-> "fulfilled",
          rows |-> Reverse(SelectSeq([k \in 1..Len(inputs) |->
                                        IF inputs[k].item = "fulfilled" THEN inputs[k].input ELSE "skipped"],
                                     LAMBDA x : x # "skipped"))]

\* TreeInputHistory.getChildren(), lines 252-254: Promise.all of the entries,
\* most recent first; it rejects once an entry has rejected and fulfils when
\* every entry has fulfilled
historyGetChildren ==
    IF \E k \in 1..Len(inputs) : inputs[k].item = "rejected"
      THEN [st |-> "rejected", rows |-> <<>>]
    ELSE IF \E k \in 1..Len(inputs) : inputs[k].item = "pending"
      THEN [st |-> "pending", rows |-> <<>>]
    ELSE [st |-> "fulfilled", rows |-> Reverse([k \in 1..Len(inputs) |-> inputs[k].input])]

\* line 233 left out: the flag keeps its value
HasHistoryNotReset == ctxHasHistory

\* line 233: _ctxHasHistory.set(false)
HasHistoryAfterClear == "false"

\* clear(), lines 231-235 (command references-view.clearHistory, line 201)
clear ==
    /\ inputs' = <<>>
    /\ ctxHasHistory' = HasHistoryAfterClear
    /\ hfired' = 1
    \* the delegate re-fires for every listener it still has on the History Store
    /\ fired' = Cardinality({c \in dsubs : calls[c].kind = "clear"})
    /\ addLog' = <<>>
    /\ NoReveal /\ logged' = FALSE
    /\ UNCHANGED <<calls, listeners, disposed>>
    /\ UNCHANGED ctlVars
    /\ UNCHANGED dlgVars

\* add(input) called on the store directly
HistoryAdd(i) ==
    /\ Len(addLog) < MaxAdds
    /\ HistoryAddEffects(i)
    /\ addLog' = Append(addLog, i)
    /\ fired' = 0 /\ hfired' = 0 /\ NoReveal /\ logged' = FALSE
    /\ UNCHANGED <<calls, listeners, disposed>>
    /\ UNCHANGED ctlVars
    /\ UNCHANGED dlgVars

\* lines 217-222: the document of entry k opens and its HistoryItem is made
AnchorResolve(k) ==
    /\ k \in 1..Len(inputs)
    /\ inputs[k].item = "pending"
    /\ inputs' = [inputs EXCEPT ![k].item = "fulfilled"]
    /\ fired' = 0 /\ hfired' = 0 /\ NoReveal /\ logged' = FALSE
    /\ UNCHANGED <<ctxHasHistory, addLog, calls, listeners, disposed>>
    /\ UNCHANGED ctlVars
    /\ UNCHANGED dlgVars

\* line 217: openTextDocument of entry k fails, the entry is a rejected promise
AnchorReject(k) ==
    /\ k \in 1..Len(inputs)
    /\ inputs[k].item = "pending"
    /\ inputs' = [inputs EXCEPT ![k].item = "rejected"]
    /\ fired' = 0 /\ hfired' = 0 /\ NoReveal /\ logged' = FALSE
    /\ UNCHANGED <<ctxHasHistory, addLog, calls, listeners, disposed>>
    /\ UNCHANGED ctlVars
    /\ UNCHANGED dlgVars

\* ------------------------------------------------------------ SymbolsTree

\* _sessionDisposable?.dispose(), line 130: Disposable.from(listener, provider?)
DisposeSession ==
    /\ listeners' = listeners \ {sessionDisposable}
    /\ disposed' = IF sessionDisposable # NoCall /\ HasDispose(calls[sessionDisposable].input)
                     THEN disposed \cup {sessionDisposable}
                     ELSE disposed

\* setInput(input), lines 122-137: the synchronous part
setInput(i) ==
    /\ CanCall
    /\ HistoryAddEffects(i)
    /\ ctxIsActive' = "true"
    /\ ctxHasResult' = "true"
    /\ input' = i
    /\ DisposeSession
    /\ UNCHANGED <<sessionDisposable, addLog>>
    /\ title' = TitleOf(i)
    /\ message' = Unset
    /\ calls' = Append(calls, [kind |-> "set", input |-> i, st |-> "pending", dlg |-> FALSE])
    /\ update(Len(calls) + 1)
    /\ hfired' = 0 /\ NoReveal /\ logged' = FALSE

\* line 141: `this._input !== input` is false
IsCurrentInput(c) == input = calls[c].input

\* the visibility test of line 150 left out
ShouldRevealHidden(sel, vis) == sel

\* line 150: `selection && this._tree.visible`
ShouldReveal(sel, vis) == sel /\ vis

\* lines 139-165: input.resolve() of call c fulfils with a model and the
\* controller's reaction runs; sel: the model has navigation and nearest()
\* found an item; vis: _tree.visible
ResolveOk(c, sel, vis) ==
    /\ c \in CallIds
    /\ calls[c].kind = "set"
    /\ calls[c].st = "pending"
    /\ calls' = [calls EXCEPT ![c].st = "fulfilled"]
    /\ IF IsCurrentInput(c)
         THEN /\ title' = TitleOf(calls[c].input)
              /\ message' = MessageOf(c, calls[c].input)
              /\ selection' = IF sel THEN "item" ELSE "undefined"
              /\ visible' = IF ~sel THEN "unread" ELSE IF vis THEN "true" ELSE "false"
              /\ revealed' = ShouldReveal(sel, vis)
              /\ listeners' = listeners \cup {c}
              /\ sessionDisposable' = c
         ELSE /\ NoReveal
              /\ UNCHANGED <<title, message, listeners, sessionDisposable>>
    /\ fired' = 0 /\ hfired' = 0 /\ logged' = FALSE
    /\ UNCHANGED <<input, ctxIsActive, ctxHasResult, disposed>>
    /\ UNCHANGED dlgVars
    /\ UNCHANGED histVars

\* input.resolve() of call c rejects: neither `then` of lines 137 and 139 has
\* a rejection handler, the controller does nothing
ResolveFail(c) ==
    /\ c \in CallIds
    /\ calls[c].kind = "set"
    /\ calls[c].st = "pending"
    /\ calls' = [calls EXCEPT ![c].st = "rejected"]
    /\ fired' = 0 /\ hfired' = 0 /\ NoReveal /\ logged' = FALSE
    /\ UNCHANGED <<listeners, disposed>>
    /\ UNCHANGED ctlVars
    /\ UNCHANGED dlgVars
    /\ UNCHANGED histVars

\* lines 174-176 left out: no empty-state message
MessageAfterClearNoFallback == Unset

\* lines 172-176: the message clearInput leaves
MessageAfterClear == IF size = 0 THEN EmptyMessage ELSE Unset

\* what clearInput does to the session of the input it drops, lines 168-177
ClearInputSession == UNCHANGED <<listeners, disposed>>

\* line 170 left out: the flag keeps its value
HasResultKeptAfterClear == ctxHasResult

\* line 170: _ctxHasResult.set(false)
HasResultAfterClear == "false"

\* clearInput(), lines 168-177 (command references-view.clear, line 200)
clearInput ==
    /\ CanCall
    /\ input' = NoInput
    /\ ctxHasResult' = HasResultAfterClear
    /\ title' = DefaultTitle
    /\ message' = MessageAfterClear
    /\ calls' = Append(calls, [kind |-> "clear", input |-> NoInput, st |-> "fulfilled",
                               dlg |-> FALSE])
    /\ update(Len(calls) + 1)
    /\ ClearInputSession
    /\ hfired' = 0 /\ NoReveal /\ logged' = FALSE
    /\ UNCHANGED <<sessionDisposable, ctxIsActive>>
    /\ UNCHANGED histVars

\* the provider of the model of call c fires onDidChangeTreeData: the
\* controller's listener (lines 156-159) and the delegate's (line 34) run if
\* they are still registered; with neither registered no code of the program
\* runs
ModelProviderChange(c) ==
    /\ c \in CallIds
    /\ calls[c].kind = "set"
    /\ calls[c].st = "fulfilled"
    /\ c \in listeners \cup dsubs
    /\ IF c \in listeners
         THEN /\ title' = TitleOf(calls[c].input)
              /\ message' = MessageOf(c, calls[c].input)
         ELSE UNCHANGED <<title, message>>
    /\ fired' = IF c \in dsubs THEN 1 ELSE 0
    /\ hfired' = 0 /\ NoReveal /\ logged' = FALSE
    /\ UNCHANGED <<input, sessionDisposable, ctxIsActive, ctxHasResult>>
    /\ UNCHANGED <<calls, listeners, disposed>>
    /\ UNCHANGED dlgVars
    /\ UNCHANGED histVars

\* ---------------------------------------------------------- specification

\* the state after `new SymbolsTree()`, lines 93-111
Init ==
    /\ input = NoInput
    /\ sessionDisposable = NoCall
    /\ ctxIsActive = "unset"
    /\ ctxHasResult = "unset"
    /\ title = "unset"
    /\ message = Unset
    /\ provider = NoCall
    /\ sessionDispoables = NoCall
    /\ onDidChangeTreeData = ConstructedEvent
    /\ inputs = <<>>
    /\ ctxHasHistory = "unset"
    /\ calls = <<>>
    /\ listeners = {}
    /\ disposed = {}
    /\ dsubs = {}
    /\ fired = 0
    /\ hfired = 0
    /\ revealed = FALSE
    /\ selection = "unasked"
    /\ visible = "unread"
    /\ logged = FALSE
    /\ addLog = <<>>

Next ==
    \/ \E i \in InputSet : setInput(i)
    \/ clearInput
    \/ clear
    \* nearest() is asked only for the current input (line 141) and
    \* _tree.visible is read only when it gave an item (line 150)
    \/ \E c \in CallIds :
          \E sel \in (IF calls[c].input = input THEN BOOLEAN ELSE {FALSE}) :
             \E vis \in (IF sel THEN BOOLEAN ELSE {FALSE}) : ResolveOk(c, sel, vis)
    \/ \E c \in CallIds : ResolveFail(c)
    \/ \E c \in CallIds : DelegateThen(c)
    \/ \E c \in CallIds : DelegateCatch(c)
    \/ \E c \in CallIds : ModelProviderChange(c)

\* the whole program: controller, delegate and history store.  The history
\* entries stay pending here; their settling is explored in SpecHistory.
Spec == Init /\ [][Next]_vars

\* the History Store driven alone: add, clear and the settling of its entries
NextHistory ==
    \/ \E i \in HistoryInputSet : HistoryAdd(i)
    \/ clear
    \/ \E k \in 1..Len(inputs) : AnchorResolve(k)
    \/ \E k \in 1..Len(inputs) : AnchorReject(k)

SpecHistory == Init /\ [][NextHistory]_vars

\* ------------------------------------------------------------------ claims

LastCall == Len(calls)

\* the messages of the models resolved so far for input i
ModelMessagesOf(i) ==
    {MessageOf(c, i) : c \in {d \in CallIds : calls[d].kind = "set" /\ calls[d].input = i}}

\* C1: setInput(X), then setInput(Y) with Y # X before X's resolution has
\* settled: the view shows Y's title, and no message or a message of a model
\* of Y.  Stated for the states in which X's resolution is still pending, so
\* that Y was called before it settled; these are states the claim covers.
C1_RaceShowsOnlyLatest ==
    (/\ LastCall >= 2
     /\ calls[LastCall].kind = "set"
     /\ calls[LastCall - 1].kind = "set"
     /\ calls[LastCall - 1].st = "pending"
     /\ calls[LastCall - 1].input # calls[LastCall].input)
    => /\ title = TitleOf(calls[LastCall].input)
       /\ message \in {Unset} \cup ModelMessagesOf(calls[LastCall].input)

\* the step is the controller's reaction to the fulfilled resolve() of call c
ResolvesNow(c) ==
    /\ c \in CallIds
    /\ calls[c].st = "pending"
    /\ Len(calls') = Len(calls)
    /\ calls'[c].st = "fulfilled"

\* C2: a resolution whose setInput call has been followed by another setInput
\* or clearInput call applies no effects when it settles: title, message, the
\* listeners and the session disposable stay as they are and no reveal is
\* requested.
C2_SupersededCallHasNoEffect ==
    [][\A c \in CallIds :
          (ResolvesNow(c) /\ c < LastCall)
          => (/\ UNCHANGED <<title, message, listeners, sessionDisposable>>
              /\ ~revealed')]_vars

\* C3: at most one model holds a live listener of the controller, and it is
\* the model resolved for the current input: the model of the most recent
\* call, a setInput call for that input.
C3_OneLiveSession ==
    /\ Cardinality(listeners) <= 1
    /\ \A c \in listeners : c = LastCall /\ input = calls[c].input

\* the step is a setInput or clearInput call
CallsNow == Len(calls') = Len(calls) + 1

\* C4: setInput and clearInput dispose the previous session before they
\* return: its listener is gone and, when the model's provider has dispose(),
\* the provider is disposed.
C4_CallsDisposePreviousSession ==
    [][(CallsNow /\ sessionDisposable \in listeners)
         => /\ sessionDisposable \notin listeners'
            /\ HasDispose(calls[sessionDisposable].input) => sessionDisposable \in disposed']_vars

\* C5: whenever the controller has no input, right after construction
\* included, the delegate holds the History Store and getChildren forwards to
\* it (or is waiting to).
C5_EmptyShowsHistory ==
    input = NoInput
    => /\ provider # NoCall
       /\ calls[provider].kind = "clear"
       /\ getChildren = "getChildren of history"

\* C6: the delegate has at most one live subscription, it is the one held in
\* _sessionDispoables, and it is on the value of the promise of the most
\* recent update call; so a promise that fulfils after a later update is never
\* subscribed, and a replaced provider is no longer listened to.
C6_OneDelegateSubscription ==
    /\ Cardinality(dsubs) <= 1
    /\ \A c \in dsubs : c = LastCall /\ c = sessionDispoables

\* C6 witness: setInput("X"), setInput("Y"), and X's promise fulfilled only
\* after the second call (X's model never had the controller's listener, and
\* its provider was never disposed); the delegate has reacted to both promises
\* and is subscribed to Y's provider alone.
C6_Witness ==
    /\ LastCall = 2
    /\ calls[1] = [kind |-> "set", input |-> "X", st |-> "fulfilled", dlg |-> TRUE]
    /\ 1 \notin listeners \cup disposed
    /\ calls[2] = [kind |-> "set", input |-> "Y", st |-> "fulfilled", dlg |-> TRUE]
    /\ dsubs = {2}

\* C7: with update never called, or with the most recently requested promise
\* rejected and that rejection handled, the three accessors fail with the
\* no-provider error.
C7_NoProviderError ==
    (\/ calls = <<>>
     \/ (calls # <<>> /\ calls[LastCall].st = "rejected" /\ calls[LastCall].dlg))
    => /\ provider = NoCall
       /\ getTreeItem = MissingProvider
       /\ getChildren = MissingProvider
       /\ getParent = MissingProvider

\* C7 witness: the latest promise rejected, the handler ran and logged it
C7_Witness ==
    /\ calls # <<>>
    /\ calls[LastCall].st = "rejected"
    /\ calls[LastCall].dlg
    /\ logged
    /\ getChildren = MissingProvider

RECURSIVE MostRecentFirst(_)
\* the inputs of a log of adds, one per hash, latest add first
MostRecentFirst(log) ==
    IF log = <<>> THEN <<>>
    ELSE LET last == log[Len(log)]
             rest == MostRecentFirst(SubSeq(log, 1, Len(log) - 1))
             Other(j) == hash(j) # hash(last)
         IN  <<last>> \o SelectSeq(rest, Other)

\* C8: after any adds since the last clear the store has one entry per
\* distinct hash, size is the number of distinct hashes, and getChildren lists
\* the entries by their latest add, most recent first.
C8_DedupMostRecentFirst ==
    /\ size = Cardinality({hash(addLog[k]) : k \in 1..Len(addLog)})
    /\ \A j, k \in 1..Len(inputs) : j # k => inputs[j].key # inputs[k].key
    /\ \A k \in 1..Len(inputs) : inputs[k].key = hash(inputs[k].input)
    /\ Reverse([k \in 1..Len(inputs) |-> inputs[k].input]) = MostRecentFirst(addLog)
    /\ historyGetChildren.st = "fulfilled"
       => historyGetChildren.rows = MostRecentFirst(addLog)

\* C8 witness: adds with hashes a, b, a, c ("X", "Y", "W", "Z") list as c, a, b
C8_Witness ==
    /\ addLog = <<"X", "Y", "W", "Z">>
    /\ size = 3
    /\ historyGetChildren = [st |-> "fulfilled", rows |-> <<"Z", "W", "Y">>]

\* C9: right after clear() (the one step that fires the store's change event)
\* size is 0, the flag is false and getChildren yields no rows, with one
\* notification fired; and the flag is true exactly when size > 0.
C9_ClearEmpties ==
    /\ (ctxHasHistory = "true") <=> (size > 0)
    /\ (ctxHasHistory = "false") <=> (hfired = 1)
    /\ hfired \in {0, 1}
    /\ hfired = 1 => /\ size = 0
                     /\ historyGetChildren = [st |-> "fulfilled", rows |-> <<>>]

\* C9 witness: a clear() that followed adds
C9_Witness ==
    /\ hfired = 1
    /\ size = 0
    /\ ctxHasHistory = "false"

\* C10: when clearInput returns there is no input, "has result" is false, the
\* title is the default label, the delegate holds the promise of the History
\* Store, and the message is the empty-state string with no history entry and
\* unset with one or more.
C10_ClearInputResult ==
    [][(CallsNow /\ calls'[Len(calls')].kind = "clear")
         => /\ input' = NoInput
            /\ ctxHasResult' = "false"
            /\ title' = DefaultTitle
            /\ provider' = Len(calls')
            /\ message' = IF Len(inputs') = 0 THEN EmptyMessage ELSE Unset]_vars

\* C10 witness: clearInput has just returned (it fired the delegate's event
\* and its promise is not reacted to yet) with entries in the history
C10_Witness ==
    /\ calls # <<>>
    /\ calls[LastCall].kind = "clear"
    /\ ~calls[LastCall].dlg
    /\ fired = 1
    /\ provider = LastCall
    /\ input = NoInput
    /\ ctxHasResult = "false"
    /\ title = DefaultTitle
    /\ size >= 1
    /\ message = Unset

\* C11: the event the delegate exposes is the same object after every step,
\* and every update call (one per setInput or clearInput call) swaps only the
\* backing provider and fires the delegate's event exactly once in the call
\* itself, while the delegate has not yet reacted to the new promise.
C11_StableChannelOneFire ==
    [][/\ onDidChangeTreeData' = onDidChangeTreeData
       /\ CallsNow => /\ fired' = 1
                      /\ provider' = Len(calls')
                      /\ ~calls'[Len(calls')].dlg]_vars

\* C11 witness: a third update has just fired, after one promise fulfilled
\* and one rejected were reacted to; the event is still the constructed one
C11_Witness ==
    /\ LastCall = 3
    /\ calls[1].st = "fulfilled" /\ calls[1].dlg
    /\ calls[2].st = "rejected" /\ calls[2].dlg
    /\ ~calls[3].dlg
    /\ provider = 3
    /\ fired = 1
    /\ onDidChangeTreeData = ConstructedEvent

\* C12: when setInput(i) returns, with its resolve() and its history entry
\* still pending, i is the most recent history entry, getInput() is i, the
\* "is active" and "has result" flags are true, the title is i's title, the
\* message is unset and the delegate holds the pending promise of this call.
C12_SetInputResult ==
    [][(CallsNow /\ calls'[Len(calls')].kind = "set")
         => LET i == calls'[Len(calls')].input
            IN  /\ calls'[Len(calls')].st = "pending"
                /\ inputs' # <<>>
                /\ inputs'[Len(inputs')] = [key |-> hash(i), input |-> i, item |-> "pending"]
                /\ input' = i
                /\ ctxIsActive' = "true"
                /\ ctxHasResult' = "true"
                /\ title' = TitleOf(i)
                /\ message' = Unset
                /\ provider' = Len(calls')]_vars

\* C12 witness: setInput has just returned for an input that was already in
\* the history behind another one, and now is its most recent entry
C12_Witness ==
    /\ LastCall = 3
    /\ calls[3].kind = "set" /\ calls[3].st = "pending" /\ ~calls[3].dlg
    /\ calls[1].kind = "set" /\ calls[1].input = calls[3].input
    /\ fired = 1
    /\ size = 2
    /\ inputs[2].input = calls[3].input
    /\ input = calls[3].input
    /\ title = TitleOf(calls[3].input)
    /\ message = Unset
    /\ provider = 3
    /\ ctxIsActive = "true" /\ ctxHasResult = "true"

\* the step is the delegate's reaction to the rejected promise of call c
CatchesNow(c) ==
    /\ c \in CallIds
    /\ calls[c].st = "rejected"
    /\ ~calls[c].dlg
    /\ Len(calls') = Len(calls)
    /\ calls'[c].dlg

\* C13: the rejection of a promise that is no longer the one the delegate
\* holds leaves the delegate's provider as it is, so the accessors keep
\* forwarding to the later provider and do not fail with the no-provider error.
C13_StaleRejectionKeepsProvider ==
    [][\A c \in CallIds :
          (CatchesNow(c) /\ provider # c /\ provider # NoCall)
          => /\ provider' = provider
             /\ getChildren' # MissingProvider]_vars

\* every promise made so far has fulfilled and both reactions to it have run
AllSettledOk == \A c \in CallIds : calls[c].st = "fulfilled" /\ calls[c].dlg

\* C14: once every started resolution has fulfilled and been reacted to, and
\* the last call was setInput, the controller is active for that call's input
\* and one model, the one that call's resolve() produced, is the model whose
\* message is shown, whose provider carries the session, and whose provider
\* the delegate holds and is subscribed to.
C14_SettledAgreesOnLastModel ==
    (calls # <<>> /\ calls[LastCall].kind = "set" /\ AllSettledOk)
    => /\ input = calls[LastCall].input
       /\ title = TitleOf(calls[LastCall].input)
       /\ message = MessageOf(LastCall, calls[LastCall].input)
       /\ sessionDisposable = LastCall
       /\ LastCall \in listeners
       /\ provider = LastCall
       /\ dsubs = {LastCall}

\* C15: after the resolve() of the current input (the last call, a setInput)
\* has rejected and the delegate has handled it, and until the next call:
\* getInput() is still that input, "has result" is still true, the title is
\* the input's title, the message is unset, no model carries a session
\* listener, and the delegate has no provider, so its accessors fail with the
\* no-provider error.
C15_RejectionLeavesChromeAndNoProvider ==
    (calls # <<>> /\ calls[LastCall].kind = "set"
       /\ calls[LastCall].st = "rejected" /\ calls[LastCall].dlg)
    => /\ input = calls[LastCall].input
       /\ ctxHasResult = "true"
       /\ title = TitleOf(calls[LastCall].input)
       /\ message = Unset
       /\ listeners = {}
       /\ provider = NoCall
       /\ getTreeItem = MissingProvider
       /\ getChildren = MissingProvider
       /\ getParent = MissingProvider

\* C16: a step requests reveal exactly when it is the controller's reaction
\* to a fulfilled resolve() whose input is the current input, nearest() gave an
\* item and the view was visible; and every such reaction for the current
\* input sets title and message from the model, reveal or not.
C16_RevealOnlyWhenCurrentFoundVisible ==
    [][/\ revealed' <=> (/\ selection' = "item"
                         /\ visible' = "true"
                         /\ \E c \in CallIds : ResolvesNow(c) /\ input = calls[c].input)
       /\ \A c \in CallIds :
             (ResolvesNow(c) /\ input = calls[c].input)
             => /\ title' = TitleOf(calls[c].input)
                /\ message' = MessageOf(c, calls[c].input)]_vars

\* C16 witness: the resolution of the current input has just fulfilled with
\* an item found while the view was hidden: a message from the model and no
\* reveal
C16_Witness ==
    /\ calls # <<>>
    /\ calls[LastCall].kind = "set" /\ calls[LastCall].st = "fulfilled" /\ ~calls[LastCall].dlg
    /\ input = "X"
    /\ calls[LastCall].input = "X"
    /\ selection = "item"
    /\ visible = "false"
    /\ ~revealed
    /\ message = MessageOf(LastCall, "X")
    /\ title = TitleOf("X")

\* C17: getChildren of the History Store fulfils only when every stored
\* entry has fulfilled; while one stored entry is rejected, getChildren is
\* rejected with no rows and the entry is counted in size; and a rejected
\* entry stays, with getChildren still failing, through every step except a
\* clear() or an add whose input has the entry's hash.
C17_RejectedEntryFailsGetChildren ==
    [][/\ (historyGetChildren.st = "fulfilled")'
           => \A k \in 1..Len(inputs') : inputs'[k].item = "fulfilled"
       /\ (\E k \in 1..Len(inputs') : inputs'[k].item = "rejected")
           => /\ historyGetChildren' = [st |-> "rejected", rows |-> <<>>]
              /\ size' = Cardinality({inputs'[k].key : k \in 1..Len(inputs')})
       /\ \A k \in 1..Len(inputs) :
             inputs[k].item = "rejected"
             => \/ inputs' = <<>> /\ hfired' = 1
                \/ /\ addLog' # addLog
                   /\ hash(addLog'[Len(addLog')]) = inputs[k].key
                   /\ inputs'[Len(inputs')].key = inputs[k].key
                   /\ inputs'[Len(inputs')].item = "pending"
                \/ /\ \E j \in 1..Len(inputs') : inputs'[j] = inputs[k]
                   /\ historyGetChildren'.st = "rejected"
                   /\ size' >= size]_vars

\* C17 witness: of two stored entries the older one rejected and the newer
\* one fulfilled: getChildren fails with no rows and size is 2
C17_Witness ==
    /\ Len(inputs) = 2
    /\ inputs[1].item = "rejected"
    /\ inputs[2].item = "fulfilled"
    /\ historyGetChildren = [st |-> "rejected", rows |-> <<>>]
    /\ size = 2

\* C18: once setInput or clearInput has been called, "has result" is true
\* exactly when there is a current input and false exactly when there is
\* none, whatever has settled; "is active" is true once a setInput has been
\* called and no step takes it away from true.
C18_FlagsFollowInput ==
    [][/\ calls' # <<>> => /\ (ctxHasResult' = "true") <=> (input' # NoInput)
                           /\ (ctxHasResult' = "false") <=> (input' = NoInput)
       /\ ctxIsActive = "true" => ctxIsActive' = "true"
       /\ (\E c \in 1..Len(calls') : calls'[c].kind = "set") <=> (ctxIsActive' = "true")]_vars

\* C18 witness: a setInput whose resolution failed, then a clearInput: no
\* input, "has result" false and "is active" still true
C18_Witness ==
    /\ Len(calls) >= 2
    /\ calls[1].kind = "set"
    /\ calls[1].st = "rejected"
    /\ calls[LastCall].kind = "clear"
    /\ input = NoInput
    /\ ctxHasResult = "false"
    /\ ctxIsActive = "true"

\* C19: whenever there is no current input after a clearInput, the message
\* is the empty-state string exactly when the History Store has no entry.
\* Violated by setInput; clearInput; clear(): lines 231-235 never write the
\* message, so the history is empty and the message is still unset.
C19_EmptyMessageIffNoHistory ==
    (calls # <<>> /\ input = NoInput) => ((message = EmptyMessage) <=> (size = 0))

====
